---- MODULE Spec2Model ----
(***************************************************************************)
(* Penney's Game processing (src/src/processing.py): score_deck,           *)
(* calculate_winner, play_one_deck and sum_games as state machines.        *)
(*                                                                         *)
(* A deck and a player's sequence are Python strings over '0'/'1'; they    *)
(* are modelled as TLA+ sequences of the one-character strings "0", "1".   *)
(* Each function has its own specification (SpecScore, SpecWinner,         *)
(* SpecPlay, SpecSum); the variables a specification does not use keep     *)
(* their idle values.                                                      *)
(***************************************************************************)
EXTENDS Integers, Sequences, FiniteSets, TLC

VARIABLES
    pc,       \* position of the running function
    deck,     \* argument deck of score_deck / play_one_deck
    seq1,     \* argument seq1 of score_deck
    seq2,     \* argument seq2 of score_deck
    scan,     \* locals of score_deck: p1_cards, p2_cards, pile, p1_tricks, p2_tricks, i
    iters,    \* history: number of executions of score_deck's loop body
    counts,   \* arguments of calculate_winner: p1_cards, p2_cards, p1_tricks, p2_tricks
    batched,  \* argument batched of play_one_deck / sum_games
    combo,    \* play_one_deck: number of pairs taken from combinations
    p2_wins_cards,   \* play_one_deck: DataFrame of card wins of player 2
    p2_wins_tricks,  \* play_one_deck: DataFrame of trick wins of player 2
    draws_cards,     \* play_one_deck: DataFrame of card draws
    draws_tricks,    \* play_one_deck: DataFrame of trick draws
    saved,    \* play_one_deck: the .npy files written, None before
    listing,  \* sum_games: the entries os.listdir(data) yields, in its order
    average,  \* argument average of sum_games
    batched_num_games,  \* argument batched_num_games of sum_games
    files,    \* sum_games: the entries that are files
    file_ix,  \* sum_games: number of files the for loop has taken
    games_total,  \* sum_games: the running sum, None before the first file
    ret       \* value returned (or exception raised) by the running function

scoreVars == <<seq1, seq2, scan, iters>>
playVars == <<combo, p2_wins_cards, p2_wins_tricks, draws_cards, draws_tricks, saved>>
sumVars == <<listing, average, batched_num_games, files, file_ix, games_total>>

vars == <<pc, deck, counts, batched, scoreVars, playVars, sumVars, ret>>

\* Longest deck given to score_deck.
MaxDeckLen == 7

\* Largest count given to calculate_winner.
MaxCount == 5

\* Longest deck given to play_one_deck.
MaxPlayDeckLen == 7

\* Most entries in the directory sum_games reads.
MaxListing == 3

\* Number of cells of the matrices stored in that directory.
NumCells == 2

\* Largest batched_num_games given to sum_games.
MaxBatchGames == 2

Sym == {"0", "1"}

\* All decks of at most n cards.
Decks(n) == UNION {[1..m -> Sym] : m \in 0..n}

\* All 3-card sequences a player can choose.
Seqs3 == [1..3 -> Sym]

\* Python's None, as a value that compares with arrays, frames and tuples.
None == <<>>

----------------------------------------------------------------------------
(* score_deck *)

\* Python's s[lo:hi] for 0 <= lo <= hi (0-based, end clamped to len(s)).
Slice(s, lo, hi) ==
    LET end == IF hi < Len(s) THEN hi ELSE Len(s)
    IN  IF lo >= end THEN <<>> ELSE [k \in 1..(end - lo) |-> s[lo + k]]

\* Lines 25-32.
ScanInit ==
    [p1_cards |-> 0, p2_cards |-> 0, pile |-> 2,
     p1_tricks |-> 0, p2_tricks |-> 0, i |-> 0]

\* Line 33, with the bound len(deck) - 3 (one window too few).
LoopCondShort(s, d) == s.i < Len(d) - 3

\* Line 33: while i < len(deck) - 2.
LoopCond(s, d) == s.i < Len(d) - 2

\* Lines 34-49 with the two match branches tested in the other order.
LoopBodySeq2First(s, d, s1, s2) ==
    LET pile == s.pile + 1
        current_sequence == Slice(d, s.i, s.i + 3)
    IN  IF current_sequence = s2
        THEN [s EXCEPT !.p2_cards = @ + pile, !.pile = 2,
                       !.p2_tricks = @ + 1, !.i = @ + 3]
        ELSE IF current_sequence = s1
        THEN [s EXCEPT !.p1_cards = @ + pile, !.pile = 2,
                       !.p1_tricks = @ + 1, !.i = @ + 3]
        ELSE [s EXCEPT !.pile = pile, !.i = @ + 1]

\* Lines 34-49 with a match moving one card forward instead of three.
LoopBodyOverlap(s, d, s1, s2) ==
    LET pile == s.pile + 1
        current_sequence == Slice(d, s.i, s.i + 3)
    IN  IF current_sequence = s1
        THEN [s EXCEPT !.p1_cards = @ + pile, !.pile = 2,
                       !.p1_tricks = @ + 1, !.i = @ + 1]
        ELSE IF current_sequence = s2
        THEN [s EXCEPT !.p2_cards = @ + pile, !.pile = 2,
                       !.p2_tricks = @ + 1, !.i = @ + 1]
        ELSE [s EXCEPT !.pile = pile, !.i = @ + 1]

\* Lines 34-49 with the pile restarted at 3 after a match.
LoopBodyPile3(s, d, s1, s2) ==
    LET pile == s.pile + 1
        current_sequence == Slice(d, s.i, s.i + 3)
    IN  IF current_sequence = s1
        THEN [s EXCEPT !.p1_cards = @ + pile, !.pile = 3,
                       !.p1_tricks = @ + 1, !.i = @ + 3]
        ELSE IF current_sequence = s2
        THEN [s EXCEPT !.p2_cards = @ + pile, !.pile = 3,
                       !.p2_tricks = @ + 1, !.i = @ + 3]
        ELSE [s EXCEPT !.pile = pile, !.i = @ + 1]

\* Lines 34-49 with the cursor left in place when nobody matches.
LoopBodyStuck(s, d, s1, s2) ==
    LET pile == s.pile + 1
        current_sequence == Slice(d, s.i, s.i + 3)
    IN  IF current_sequence = s1
        THEN [s EXCEPT !.p1_cards = @ + pile, !.pile = 2,
                       !.p1_tricks = @ + 1, !.i = @ + 3]
        ELSE IF current_sequence = s2
        THEN [s EXCEPT !.p2_cards = @ + pile, !.pile = 2,
                       !.p2_tricks = @ + 1, !.i = @ + 3]
        ELSE [s EXCEPT !.pile = pile]

\* Lines 34-49 with player 2's match moving one card forward instead of three.
LoopBodyP2Overlap(s, d, s1, s2) ==
    LET pile == s.pile + 1
        current_sequence == Slice(d, s.i, s.i + 3)
    IN  IF current_sequence = s1
        THEN [s EXCEPT !.p1_cards = @ + pile, !.pile = 2,
                       !.p1_tricks = @ + 1, !.i = @ + 3]
        ELSE IF current_sequence = s2
        THEN [s EXCEPT !.p2_cards = @ + pile, !.pile = 2,
                       !.p2_tricks = @ + 1, !.i = @ + 1]
        ELSE [s EXCEPT !.pile = pile, !.i = @ + 1]

\* Lines 34-49: one execution of the loop body.
LoopBody(s, d, s1, s2) ==
    LET pile == s.pile + 1
        current_sequence == Slice(d, s.i, s.i + 3)
    IN  IF current_sequence = s1
        THEN [s EXCEPT !.p1_cards = @ + pile, !.pile = 2,
                       !.p1_tricks = @ + 1, !.i = @ + 3]
        ELSE IF current_sequence = s2
        THEN [s EXCEPT !.p2_cards = @ + pile, !.pile = 2,
                       !.p2_tricks = @ + 1, !.i = @ + 3]
        ELSE [s EXCEPT !.pile = pile, !.i = @ + 1]

\* Line 51: the returned tuple.
ScoreTuple(s) == <<s.p1_cards, s.p2_cards, s.p1_tricks, s.p2_tricks>>

\* Lines 33-49 run to completion from locals s.
RECURSIVE Scan(_, _, _, _)
Scan(s, d, s1, s2) ==
    IF LoopCond(s, d) THEN Scan(LoopBody(s, d, s1, s2), d, s1, s2) ELSE s

\* The whole function, as called by play_one_deck.
score_deck(d, s1, s2) == ScoreTuple(Scan(ScanInit, d, s1, s2))

\* Values of the variables of the functions that are not running.
IdleScore ==
    /\ seq1 = <<>>
    /\ seq2 = <<>>
    /\ scan = ScanInit
    /\ iters = 0

IdleCounts == counts = <<0, 0, 0, 0>>

IdlePlay ==
    /\ combo = 0
    /\ p2_wins_cards = None
    /\ p2_wins_tricks = None
    /\ draws_cards = None
    /\ draws_tricks = None
    /\ saved = None

IdleSum ==
    /\ listing = <<>>
    /\ average = FALSE
    /\ batched_num_games = 0
    /\ files = <<>>
    /\ file_ix = 0
    /\ games_total = None

InitScore ==
    /\ deck \in Decks(MaxDeckLen)
    /\ seq1 \in Seqs3
    /\ seq2 \in Seqs3
    /\ scan = ScanInit
    /\ iters = 0
    /\ pc = "score_loop"
    /\ ret = None
    /\ batched = FALSE
    /\ IdleCounts /\ IdlePlay /\ IdleSum

\* One iteration of the while loop (lines 33-49).
ScoreStep ==
    /\ pc = "score_loop"
    /\ LoopCond(scan, deck)
    /\ scan' = LoopBody(scan, deck, seq1, seq2)
    /\ iters' = iters + 1
    /\ UNCHANGED <<pc, deck, seq1, seq2, counts, batched, playVars, sumVars, ret>>

\* The loop condition fails and the function returns (lines 33, 51).
ScoreReturn ==
    /\ pc = "score_loop"
    /\ ~LoopCond(scan, deck)
    /\ ret' = ScoreTuple(scan)
    /\ pc' = "score_done"
    /\ UNCHANGED <<deck, scoreVars, counts, batched, playVars, sumVars>>

NextScore == ScoreStep \/ ScoreReturn

\* score_deck is sequential code: a step that can be taken is taken.
SpecScore == InitScore /\ [][NextScore]_vars /\ WF_vars(NextScore)

----------------------------------------------------------------------------
(* calculate_winner *)

\* Lines 76-91 with the cards comparison written <= instead of <.
calculate_winner_le(p1_cards, p2_cards, p1_tricks, p2_tricks) ==
    LET cards_winner == IF p1_cards <= p2_cards THEN 1 ELSE 0
        cards_draw == IF p1_cards <= p2_cards THEN 0
                      ELSE IF p1_cards = p2_cards THEN 1 ELSE 0
        tricks_winner == IF p1_tricks < p2_tricks THEN 1 ELSE 0
        tricks_draw == IF p1_tricks < p2_tricks THEN 0
                       ELSE IF p1_tricks = p2_tricks THEN 1 ELSE 0
    IN  <<cards_winner, cards_draw, tricks_winner, tricks_draw>>

\* Lines 76-91: the four flags start at 0; the if sets the winner, the elif
\* the draw.
calculate_winner(p1_cards, p2_cards, p1_tricks, p2_tricks) ==
    LET cards_winner == IF p1_cards < p2_cards THEN 1 ELSE 0
        cards_draw == IF p1_cards < p2_cards THEN 0
                      ELSE IF p1_cards = p2_cards THEN 1 ELSE 0
        tricks_winner == IF p1_tricks < p2_tricks THEN 1 ELSE 0
        tricks_draw == IF p1_tricks < p2_tricks THEN 0
                       ELSE IF p1_tricks = p2_tricks THEN 1 ELSE 0
    IN  <<cards_winner, cards_draw, tricks_winner, tricks_draw>>

InitWinner ==
    /\ counts \in (0..MaxCount) \X (0..MaxCount) \X (0..MaxCount) \X (0..MaxCount)
    /\ pc = "winner_call"
    /\ ret = None
    /\ deck = <<>>
    /\ batched = FALSE
    /\ IdleScore /\ IdlePlay /\ IdleSum

\* The call calculate_winner(p1_cards, p2_cards, p1_tricks, p2_tricks).
CalculateWinner ==
    /\ pc = "winner_call"
    /\ ret' = calculate_winner(counts[1], counts[2], counts[3], counts[4])
    /\ pc' = "winner_done"
    /\ UNCHANGED <<deck, counts, batched, scoreVars, playVars, sumVars>>

NextWinner == CalculateWinner

SpecWinner == InitWinner /\ [][NextWinner]_vars

----------------------------------------------------------------------------
(* play_one_deck *)

\* Line 109.
sequences ==
    << <<"0", "0", "0">>, <<"0", "0", "1">>, <<"0", "1", "0">>, <<"0", "1", "1">>,
       <<"1", "0", "0">>, <<"1", "0", "1">>, <<"1", "1", "0">>, <<"1", "1", "1">> >>

\* Line 110: the k-th pair (k from 0) of itertools.product(sequences, repeat=2).
Combination(k) ==
    <<sequences[(k \div Len(sequences)) + 1], sequences[(k % Len(sequences)) + 1]>>

NumCombinations == Len(sequences) * Len(sequences)

\* A pandas cell that was never assigned.
NaN == "NaN"

\* Lines 111-114: pd.DataFrame(columns=..., index=...), every cell NaN.  A
\* frame keeps its row labels, its column labels and its rows by position.
NewFrame(cols, idx) ==
    [index |-> idx, columns |-> cols,
     values |-> [r \in 1..Len(idx) |-> [c \in 1..Len(cols) |-> NaN]]]

\* Position of a label among the labels of an axis.
Pos(labels, l) == CHOOSE n \in 1..Len(labels) : labels[n] = l

\* Lines 120-123: df.at[row, col] = v.
SetAt(df, row, col, v) ==
    [df EXCEPT !.values[Pos(df.index, row)][Pos(df.columns, col)] = v]

\* Line 128 without the reversal.
ReverseNot(s) == s

\* Line 128: s[::-1].
Reverse(s) == [n \in 1..Len(s) |-> s[Len(s) + 1 - n]]

\* Lines 129-132: df.loc[labels, :], the rows of df in the order of labels.
LocRows(df, labels) ==
    [index |-> labels, columns |-> df.columns,
     values |-> [n \in 1..Len(labels) |-> df.values[Pos(df.index, labels[n])]]]

\* Line 125: int(deck, 2) for a non-empty string of binary digits.
RECURSIVE BinToInt(_)
BinToInt(d) ==
    IF Len(d) = 0 THEN 0
    ELSE 2 * BinToInt(SubSeq(d, 1, Len(d) - 1)) + (IF d[Len(d)] = "1" THEN 1 ELSE 0)

\* Line 125: int('', 2) raises ValueError.
NameRaises(d) == Len(d) = 0

InitPlay ==
    /\ deck \in Decks(MaxPlayDeckLen)
    /\ batched \in BOOLEAN
    /\ combo = 0
    /\ p2_wins_cards = NewFrame(sequences, sequences)
    /\ p2_wins_tricks = NewFrame(sequences, sequences)
    /\ draws_cards = NewFrame(sequences, sequences)
    /\ draws_tricks = NewFrame(sequences, sequences)
    /\ saved = None
    /\ pc = "play_loop"
    /\ ret = None
    /\ IdleScore /\ IdleCounts /\ IdleSum

\* One iteration of the for loop (lines 116-123).
PlayIterate ==
    /\ pc = "play_loop"
    /\ combo < NumCombinations
    /\ LET s1 == Combination(combo)[1]
           s2 == Combination(combo)[2]
           score == score_deck(deck, s1, s2)
           winner == calculate_winner(score[1], score[2], score[3], score[4])
       IN  /\ p2_wins_cards' = SetAt(p2_wins_cards, s1, s2, winner[1])
           /\ draws_cards' = SetAt(draws_cards, s1, s2, winner[2])
           /\ p2_wins_tricks' = SetAt(p2_wins_tricks, s1, s2, winner[3])
           /\ draws_tricks' = SetAt(draws_tricks, s1, s2, winner[4])
    /\ combo' = combo + 1
    /\ UNCHANGED <<pc, deck, counts, batched, scoreVars, saved, sumVars, ret>>

\* Line 125 on an empty deck: the ValueError leaves the function.
PlayNameError ==
    /\ pc = "play_loop"
    /\ combo = NumCombinations
    /\ NameRaises(deck)
    /\ ret' = "ValueError"
    /\ pc' = "play_raised"
    /\ UNCHANGED <<deck, counts, batched, scoreVars, playVars, sumVars>>

\* Lines 128-132.
Reordered ==
    /\ p2_wins_cards' = LocRows(p2_wins_cards, Reverse(sequences))
    /\ p2_wins_tricks' = LocRows(p2_wins_tricks, Reverse(sequences))
    /\ draws_cards' = LocRows(draws_cards, Reverse(sequences))
    /\ draws_tricks' = LocRows(draws_tricks, Reverse(sequences))

\* Lines 125-135: batched, the reordered frames are returned unsaved.
PlayReturnBatched ==
    /\ pc = "play_loop"
    /\ combo = NumCombinations
    /\ ~NameRaises(deck)
    /\ batched
    /\ Reordered
    /\ ret' = <<p2_wins_cards', p2_wins_tricks', draws_cards', draws_tricks'>>
    /\ pc' = "play_done"
    /\ UNCHANGED <<deck, counts, batched, scoreVars, combo, saved, sumVars>>

\* Lines 125-143: not batched, np.save writes the values of each reordered
\* frame under the deck's number, then the frames are returned.
PlaySaveReturn ==
    /\ pc = "play_loop"
    /\ combo = NumCombinations
    /\ ~NameRaises(deck)
    /\ ~batched
    /\ Reordered
    /\ saved' = [deck_name |-> BinToInt(deck),
                 cards |-> p2_wins_cards'.values,
                 tricks |-> p2_wins_tricks'.values,
                 cards_ties |-> draws_cards'.values,
                 tricks_ties |-> draws_tricks'.values]
    /\ ret' = <<p2_wins_cards', p2_wins_tricks', draws_cards', draws_tricks'>>
    /\ pc' = "play_done"
    /\ UNCHANGED <<deck, counts, batched, scoreVars, combo, sumVars>>

NextPlay == PlayIterate \/ PlayNameError \/ PlayReturnBatched \/ PlaySaveReturn

SpecPlay == InitPlay /\ [][NextPlay]_vars

----------------------------------------------------------------------------
(* sum_games *)

\* The values of the cells play_one_deck saves (lines 76-90, 120-123).
Flags == {0, 1}

\* The arrays np.load can return: equally-shaped, NumCells cells each.
Games == [1..NumCells -> Flags]

\* What os.listdir(data) can name: a file holding a game, or a directory.
Entries ==
    {[isfile |-> TRUE, game |-> g] : g \in Games}
        \cup {[isfile |-> FALSE, game |-> None]}

\* Line 178: os.listdir returns the entries in arbitrary order.
Listings == UNION {[1..m -> Entries] : m \in 0..MaxListing}

IsFile(e) == e.isfile

\* Line 186 with the loaded game replacing the running sum.
AddKeepLast(a, b) == b

\* Line 186: games_total += game, element by element.
Add(a, b) == [c \in DOMAIN a |-> a[c] + b[c]]

RECURSIVE GCD(_, _)
GCD(a, b) == IF b = 0 THEN a ELSE GCD(b, a % b)

\* x / n for x >= 0 and n > 0, as the fraction <<numerator, denominator>>
\* in lowest terms.
Quotient(x, n) == <<x \div GCD(x, n), n \div GCD(x, n)>>

\* Line 192: np.divide(games_total, num_games), element by element.
Divide(a, n) == [c \in DOMAIN a |-> Quotient(a[c], n)]

\* Lines 187-190.
NumGames == IF batched THEN batched_num_games ELSE Len(files)

InitSum ==
    /\ listing \in Listings
    /\ average \in BOOLEAN
    /\ batched \in BOOLEAN
    /\ batched_num_games \in 0..MaxBatchGames
    /\ files = <<>>
    /\ file_ix = 0
    /\ games_total = None
    /\ pc = "sum_call"
    /\ ret = None
    /\ deck = <<>>
    /\ IdleScore /\ IdleCounts /\ IdlePlay

\* Lines 178-179: keep the entries that are files.
SumList ==
    /\ pc = "sum_call"
    /\ files' = SelectSeq(listing, IsFile)
    /\ games_total' = None
    /\ pc' = "sum_loop"
    /\ UNCHANGED <<deck, counts, batched, scoreVars, playVars,
                   listing, average, batched_num_games, file_ix, ret>>

\* One iteration of the for loop (lines 180-186).
SumLoad ==
    /\ pc = "sum_loop"
    /\ file_ix < Len(files)
    /\ LET game == files[file_ix + 1].game
       IN  games_total' = IF games_total = None THEN game
                          ELSE Add(games_total, game)
    /\ file_ix' = file_ix + 1
    /\ UNCHANGED <<pc, deck, counts, batched, scoreVars, playVars,
                   listing, average, batched_num_games, files, ret>>

\* Lines 187-193 with average False: the sum is returned as it is.
SumReturnTotal ==
    /\ pc = "sum_loop"
    /\ file_ix = Len(files)
    /\ ~average
    /\ ret' = <<games_total, NumGames>>
    /\ pc' = "sum_done"
    /\ UNCHANGED <<deck, counts, batched, scoreVars, playVars, sumVars>>

\* Lines 187-192 with average True: the quotient is returned.
SumReturnAverage ==
    /\ pc = "sum_loop"
    /\ file_ix = Len(files)
    /\ average
    /\ games_total # None
    /\ NumGames # 0
    /\ ret' = <<Divide(games_total, NumGames), NumGames>>
    /\ pc' = "sum_done"
    /\ UNCHANGED <<deck, counts, batched, scoreVars, playVars, sumVars>>

\* Line 192 when np.divide cannot divide: None / n raises TypeError, and the
\* integers of a saved array divided by 0 raise ZeroDivisionError.
SumDivideRaises ==
    /\ pc = "sum_loop"
    /\ file_ix = Len(files)
    /\ average
    /\ games_total = None \/ NumGames = 0
    /\ ret' = IF games_total = None THEN "TypeError" ELSE "ZeroDivisionError"
    /\ pc' = "sum_raised"
    /\ UNCHANGED <<deck, counts, batched, scoreVars, playVars, sumVars>>

NextSum ==
    SumList \/ SumLoad \/ SumReturnTotal \/ SumReturnAverage \/ SumDivideRaises

SpecSum == InitSum /\ [][NextSum]_vars

----------------------------------------------------------------------------
(* Claims about score_deck, checked under SpecScore *)

Zeros == <<0, 0, 0, 0>>

\* C1: the returned counts are non-negative, the cards sum to at most
\* len(deck) and the tricks sum to at most floor(len(deck) / 3).
C1_ScoreBounds ==
    pc = "score_done" =>
        /\ \A k \in 1..4 : ret[k] >= 0
        /\ ret[1] + ret[2] <= Len(deck)
        /\ ret[3] + ret[4] <= Len(deck) \div 3

\* A deck shared out completely, both players scoring.
C1_Witness ==
    /\ pc = "score_done"
    /\ Len(deck) >= 6
    /\ ret[1] > 0 /\ ret[2] > 0
    /\ ret[1] + ret[2] = Len(deck)
    /\ ret[3] + ret[4] = Len(deck) \div 3

\* C2 as stated: a 3-card deck is never scanned and scores nothing.
C2_Len3ScanEmpty ==
    (pc = "score_done" /\ Len(deck) = 3) => (iters = 0 /\ ret = Zeros)

\* C2 amended: the scan range is empty, with all outputs 0, for decks of at
\* most 2 cards; a 3-card deck has the one window i = 0, the loop body runs
\* exactly once, and the deck scores (3,0,1,0) when it equals seq1, else
\* (0,3,0,1) when it equals seq2, else all zeros.
C2_Len3OneWindow ==
    pc = "score_done" =>
        /\ Len(deck) <= 2 => (iters = 0 /\ ret = Zeros)
        /\ Len(deck) = 3 =>
              /\ iters = 1
              /\ ret = IF deck = seq1 THEN <<3, 0, 1, 0>>
                       ELSE IF deck = seq2 THEN <<0, 3, 0, 1>>
                       ELSE Zeros

\* A 3-card deck equal to player 2's sequence takes the trick.
C2_Witness ==
    /\ pc = "score_done"
    /\ Len(deck) = 3
    /\ deck = seq2
    /\ iters = 1
    /\ ret = <<0, 3, 0, 1>>

\* C3: with seq1 = seq2 player 2 is never credited, in any state of the scan
\* nor in the result.
C3_EqualSeqsCreditP1 ==
    seq1 = seq2 =>
        /\ scan.p2_cards = 0
        /\ scan.p2_tricks = 0
        /\ pc = "score_done" => (ret[2] = 0 /\ ret[4] = 0)

\* Equal sequences that matched twice.
C3_Witness ==
    /\ pc = "score_done"
    /\ seq1 = seq2
    /\ ret[3] >= 2
    /\ ret[2] = 0 /\ ret[4] = 0

Max(a, b) == IF a >= b THEN a ELSE b

\* C7: every iteration moves the cursor forward (by 3 on a match, by 1
\* otherwise) while the deck, hence the bound len(deck) - 2, stays the same;
\* the body runs at most len(deck) - 2 times and the function returns.
C7_ScanTerminates ==
    /\ [][ pc = "score_loop" /\ pc' = "score_loop" =>
             /\ deck' = deck
             /\ scan'.i > scan.i
             /\ scan'.i - scan.i =
                  IF scan'.p1_tricks + scan'.p2_tricks
                       > scan.p1_tricks + scan.p2_tricks THEN 3 ELSE 1 ]_vars
    /\ [](iters <= Max(Len(deck) - 2, 0))
    /\ <>(pc = "score_done")

\* A scan without a match: the body ran the full len(deck) - 2 times.
C7_Witness ==
    /\ pc = "score_done"
    /\ Len(deck) >= 6
    /\ iters = Len(deck) - 2

\* C9: the pile starts at 2; whenever the loop condition is evaluated
\* p1_cards + p2_cards + (pile - 2) = i; a match at cursor i resets the pile
\* to 2 and brings the cards awarded so far to i + 3, so a first match at
\* i = 0 awards 3.
C9_PileAccounting ==
    /\ scan.pile = 2
    /\ [](pc = "score_loop" =>
            scan.p1_cards + scan.p2_cards + (scan.pile - 2) = scan.i)
    /\ [][ scan'.p1_tricks + scan'.p2_tricks
             > scan.p1_tricks + scan.p2_tricks =>
             /\ scan'.pile = 2
             /\ scan'.p1_cards + scan'.p2_cards = scan.i + 3
             /\ scan.i = 0 =>
                  scan'.p1_cards + scan'.p2_cards
                    - (scan.p1_cards + scan.p2_cards) = 3 ]_vars

\* A first match at i = 0 followed by a later match that takes a bigger pile.
C9_Witness ==
    /\ pc = "score_loop"
    /\ scan.pile = 2
    /\ scan.p1_cards = 3 /\ scan.p1_tricks = 1
    /\ scan.p2_cards = 4 /\ scan.p2_tricks = 1
    /\ scan.i = 7

----------------------------------------------------------------------------
(* Claim about calculate_winner, checked under SpecWinner *)

\* C4: for cards and for tricks alike, winner = 1 iff player 1's count is
\* below player 2's, draw = 1 iff the counts are equal, the two flags are
\* never both 1 (exactly one of winner = 1, draw = 1, player 1 ahead holds),
\* and calculate_winner(5,5,2,3) = (0,1,1,0).
C4_WinnerRule ==
    pc = "winner_done" =>
        /\ \A m \in {0, 1} :
             LET a == counts[2 * m + 1]
                 b == counts[2 * m + 2]
                 winner == ret[2 * m + 1]
                 draw == ret[2 * m + 2]
             IN  /\ winner \in {0, 1} /\ draw \in {0, 1}
                 /\ winner = 1 <=> a < b
                 /\ draw = 1 <=> a = b
                 /\ ~(winner = 1 /\ draw = 1)
                 /\ Cardinality({x \in {"winner", "draw", "neither"} :
                        \/ x = "winner" /\ winner = 1
                        \/ x = "draw" /\ draw = 1
                        \/ x = "neither" /\ winner = 0 /\ draw = 0 /\ a > b}) = 1
        /\ counts = <<5, 5, 2, 3>> => ret = <<0, 1, 1, 0>>

\* The call calculate_winner(5,5,2,3) has returned.
C4_Witness ==
    /\ pc = "winner_done"
    /\ counts = <<5, 5, 2, 3>>
    /\ ret = <<0, 1, 1, 0>>

----------------------------------------------------------------------------
(* Claims about play_one_deck, checked under SpecPlay *)

\* The calculate_winner flag held by the m-th returned matrix
\* (p2_wins_cards, p2_wins_tricks, draws_cards, draws_tricks).
FlagOf(m) == <<1, 3, 2, 4>>[m]

\* The four returned matrices are complete 8x8 tables, columns 000..111,
\* rows 111..000, each cell the flag of its (row, column) pairing.
MatricesComplete ==
    \A m \in 1..4 :
        /\ ret[m].columns = sequences
        /\ Len(ret[m].index) = 8
        /\ ret[m].index[1] = <<"1", "1", "1">>
        /\ ret[m].index[8] = <<"0", "0", "0">>
        /\ Len(ret[m].values) = 8
        /\ \A r \in 1..8 :
             /\ ret[m].index[r] = sequences[9 - r]
             /\ Len(ret[m].values[r]) = 8
             /\ \A c \in 1..8 :
                  LET score == score_deck(deck, sequences[9 - r], sequences[c])
                      winner == calculate_winner(score[1], score[2], score[3], score[4])
                  IN  /\ ret[m].values[r][c] \in {0, 1}
                      /\ ret[m].values[r][c] = winner[FlagOf(m)]

\* C5 as stated: for any deck play_one_deck returns the complete matrices.
C5_AnyDeckReturnsMatrices ==
    pc # "play_loop" => (pc = "play_done" /\ MatricesComplete)

\* C5 amended: for any non-empty deck play_one_deck returns four 8x8
\* matrices with every cell populated by the calculate_winner flag of
\* score_deck(deck, row label, column label), columns 000..111 and rows
\* 111..000 (an empty deck raises ValueError at int(deck, 2)).
C5_NonEmptyDeckReturnsMatrices ==
    (pc # "play_loop" /\ deck # <<>>) => (pc = "play_done" /\ MatricesComplete)

\* A deck was played and saved whose matrices hold wins and non-draws.
C5_Witness ==
    /\ pc = "play_done"
    /\ Len(deck) >= 6
    /\ saved # None
    /\ MatricesComplete
    /\ \E r, c \in 1..8 : ret[1].values[r][c] = 1 /\ ret[2].values[r][c] = 1
    /\ \E r, c \in 1..8 : ret[3].values[r][c] = 0 /\ ret[4].values[r][c] = 1

\* The cell of a frame at (row label, column label).
CellAt(df, row, col) == df.values[Pos(df.index, row)][Pos(df.columns, col)]

\* C10: for distinct sequences, exchanging the players exchanges the scores;
\* in the returned matrices the off-diagonal draw cells are symmetric and
\* win[s1][s2], win[s2][s1] are never both 1.
C10_SwapSymmetry ==
    pc = "play_done" =>
        \A s1, s2 \in Seqs3 :
            s1 # s2 =>
                LET x == score_deck(deck, s1, s2)
                    y == score_deck(deck, s2, s1)
                IN  /\ y = <<x[2], x[1], x[4], x[3]>>
                    /\ CellAt(ret[3], s1, s2) = CellAt(ret[3], s2, s1)
                    /\ CellAt(ret[4], s1, s2) = CellAt(ret[4], s2, s1)
                    /\ ~(CellAt(ret[1], s1, s2) = 1 /\ CellAt(ret[1], s2, s1) = 1)
                    /\ ~(CellAt(ret[2], s1, s2) = 1 /\ CellAt(ret[2], s2, s1) = 1)

\* Both players take a trick, player 2 more cards: the win cell is 1 one way
\* round and 0 the other, the trick draw cell is 1 both ways.
C10_Witness ==
    /\ pc = "play_done"
    /\ \E s1, s2 \in Seqs3 :
          /\ s1 # s2
          /\ score_deck(deck, s1, s2)[3] = 1
          /\ score_deck(deck, s1, s2)[4] = 1
          /\ score_deck(deck, s1, s2)[1] < score_deck(deck, s1, s2)[2]
          /\ CellAt(ret[1], s1, s2) = 1 /\ CellAt(ret[1], s2, s1) = 0
          /\ CellAt(ret[4], s1, s2) = 1 /\ CellAt(ret[4], s2, s1) = 1

----------------------------------------------------------------------------
(* Claims about sum_games, checked under SpecSum *)

\* Sum of cell c over the files numbered in S, taken in no particular order.
RECURSIVE CellSum(_, _)
CellSum(S, c) ==
    IF S = {} THEN 0
    ELSE LET k == CHOOSE k \in S : TRUE
         IN  files[k].game[c] + CellSum(S \ {k}, c)

C8_EmptyInputRaises ==
    (pc \in {"sum_done", "sum_raised"} /\ files = <<>>) => pc = "sum_raised"

====
